---------------------------- MODULE Spec2Model ----------------------------
(***************************************************************************)
(* Conversation state manager of the chat proxy, src/main.py: the          *)
(* process-wide conversations dict, the Conversation objects it refers to, *)
(* and the POST /chat/ handler, which is an `async def` without any await  *)
(* and so runs to completion on the event loop before any other request's  *)
(* handler runs.                                                           *)
(* src/ai_muj_bot.py is the same program with another system prompt and    *)
(* without the `if not client` test: it refuses to start without an API    *)
(* key, so it behaves as main.py does with client = TRUE.                  *)
(***************************************************************************)
EXTENDS Integers, Sequences, FiniteSets, TLC

\* --------------------------------------------------------------- bounds
\* Number of requests the HTTP layer delivers in one behaviour.
NumRequests == 2

Requests == 1..NumRequests

\* Request fields (UserInput): every field is an unconstrained str.
ConvIds == {"c1", "c2"}

\* The (role, message) pairs the requests of a behaviour are drawn from: a
\* user message, a caller-supplied assistant message that is empty, a
\* caller-supplied system message, and a role outside {system, user,
\* assistant} that repeats the user's content.
Turns ==
    {<<"user", "A">>, <<"assistant", "">>, <<"system", "B">>, <<"tool", "A">>}

\* What client.chat.completions.create can do: return a completion whose
\* message content is a str or None, or raise.
ProviderTexts == {"R", " ", ""}
ProviderOutcomes ==
    {[kind |-> "text", content |-> t] : t \in ProviderTexts}
        \cup {[kind |-> "none", content |-> ""], [kind |-> "raise", content |-> ""]}

\* Window capacity of the specification's Conversation (not counting the
\* pinned system message).
maxHistory == 2

VARIABLES
    client,         \* TRUE iff the module-level Groq client was constructed
    conversations,  \* dict conversation_id -> Conversation (an object reference)
    heap,           \* the Conversation objects ever constructed, by reference
    running,        \* the request whose handler the event loop is executing, 0 if none
    pc,             \* each request's position in chat()
    input,          \* each request's UserInput
    conversation,   \* chat's local variable `conversation` (a reference, 0 if unset)
    entry,          \* history: the Conversation as get_or_create returned it to the handler
    fresh,          \* history: the request arrived while its conversation_id was unseen
    appended,       \* history: per Conversation, every message handed to append, in order
    sent,           \* per request, the message lists handed to the provider, in order
    result          \* per request, the HTTP response

vars == <<client, conversations, heap, running, pc, input, conversation,
          entry, fresh, appended, sent, result>>

\* ------------------------------------------------------------- data
Message(role, content) == [role |-> role, content |-> content]

SystemPrompt == Message("system", "You are Sabrang Assistant")

\* A Conversation constructed ended.
NewConversationEnded == [messages |-> <<SystemPrompt>>, active |-> FALSE]

\* Conversation.__init__: the system message alone, active.
NewConversation == [messages |-> <<SystemPrompt>>, active |-> TRUE]

NoInput == [conversation_id |-> "", role |-> "", message |-> ""]
NoResult == [status |-> 0, response |-> "", conversation_id |-> "", detail |-> <<>>]
NoEntry == [messages |-> <<>>, active |-> TRUE]

\* HTTPException(status_code, detail); detail is kept as the chain of texts
\* that str(e) wrapping builds, outermost first.
HTTPException(status, detail) ==
    [status |-> status, response |-> "", conversation_id |-> "", detail |-> detail]

StatusStr(s) ==
    CASE s = 400 -> "400" [] s = 500 -> "500" [] s = 503 -> "503" [] OTHER -> "?"

\* str(e) of an HTTPException: "<status_code>: <detail>".
StrOfException(e) == <<StatusStr(e.status)>> \o e.detail

\* `except Exception as e: raise HTTPException(status_code=500, detail=str(e))`
ChatExcept(e) == HTTPException(500, StrOfException(e))

\* `except Exception as e: raise HTTPException(500, f"Error with Groq API: {str(e)}")`
QueryExcept(text) == HTTPException(500, <<"Error with Groq API">> \o text)

\* Python truthiness of the completion's content: None and "" are falsy.
Falsy(o) == o.kind = "none" \/ (o.kind = "text" /\ o.content = "")

\* A module without the `if not client` test.
ClientMissingNever == FALSE

\* `if not client`
ClientMissing == ~client

\* query_groq_api after the provider answered with outcome o: either the text
\* it returns, or the exception that leaves it.
QueryOutcome(o) ==
    IF o.kind = "raise"
    THEN [ok |-> FALSE, content |-> "", exc |-> QueryExcept(<<"provider error">>)]
    ELSE IF Falsy(o)
    THEN [ok |-> FALSE, content |-> "",
          exc |-> QueryExcept(StrOfException(
                      HTTPException(500, <<"Empty response from Groq API">>)))]
    ELSE [ok |-> TRUE, content |-> o.content, exc |-> NoResult]

\* A list.insert(0, m) where the program has list.append(m).
ListPrepend(messages, m) == <<m>> \o messages

\* list.append
ListAppend(messages, m) == Append(messages, m)

\* An append to a copy of the list (conversation.messages + [m]), which
\* leaves the Conversation as it was.
AppendOnCopy(h, o, m) == h

\* conversation.messages.append(m) on the object at reference o.
AppendMessage(h, o, m) ==
    [h EXCEPT ![o].messages = ListAppend(h[o].messages, m)]

\* get_or_create_conversation without its membership test.
UnseenAlways(id) == TRUE

\* `conversation_id not in conversations`
Unseen(id) == id \notin DOMAIN conversations

\* A Conversation class whose message list is a class attribute: every
\* conversation_id is given the first object's list.
StoreInsertShared(store, id, ref) ==
    [k \in DOMAIN store \cup {id} |-> 1]

\* `conversations[conversation_id] = Conversation()` with the new object's reference.
StoreInsert(store, id, ref) ==
    [k \in DOMAIN store \cup {id} |-> IF k = id THEN ref ELSE store[k]]

\* chat without its test of the active flag.
EndedIgnored(o) == FALSE

\* `if not conversation.active`
Ended(o) == ~heap[o].active

\* The dict chat builds from the request: {"role": input.role, "content": input.message}
CallerMessage(r) == Message(input[r].role, input[r].message)

\* A call that sends the newest message alone.
ProviderLastMessage(o) == <<heap[o].messages[Len(heap[o].messages)]>>

\* `messages=conversation.messages`, the argument of completions.create
ProviderMessages(o) == heap[o].messages

\* A retry loop around the provider call: a failed call is made again.
RetryFailedCall == "query"

\* Where a handler goes when its provider call failed: both except clauses
\* raise, so it leaves chat.
AfterFailedCall == "done"

\* chat as a plain `def`, which the framework runs on a thread pool: the
\* handlers' steps interleave freely.
CanRunThreaded(r) == TRUE

\* The event loop runs one coroutine at a time and chat() never awaits: a
\* handler step is possible only while no other handler is in progress.
CanRun(r) == running \in {0, r}

\* ------------------------------------------------------------- initial state
Init ==
    /\ client \in BOOLEAN      \* GROQ_API_KEY set or not when the module loads
    /\ conversations = <<>>
    /\ heap = <<>>
    /\ running = 0
    /\ pc = [r \in Requests |-> "idle"]
    /\ input = [r \in Requests |-> NoInput]
    /\ conversation = [r \in Requests |-> 0]
    /\ entry = [r \in Requests |-> NoEntry]
    /\ fresh = [r \in Requests |-> FALSE]
    /\ appended = <<>>
    /\ sent = [r \in Requests |-> <<>>]
    /\ result = [r \in Requests |-> NoResult]

\* ------------------------------------------------------------- actions
\* A client's request arrives: the HTTP layer will parse its body into a
\* UserInput and schedule chat(). Requests are numbered in arrival order.
Arrive(r) ==
    /\ pc[r] = "idle"
    /\ \A q \in Requests : q < r => pc[q] # "idle"
    /\ \E id \in ConvIds, t \in Turns :
          /\ input' = [input EXCEPT ![r] =
                          [conversation_id |-> id, role |-> t[1], message |-> t[2]]]
          /\ fresh' = [fresh EXCEPT ![r] = Unseen(id)]
    /\ pc' = [pc EXCEPT ![r] = "pending"]
    /\ UNCHANGED <<client, conversations, heap, running, conversation,
                   entry, appended, sent, result>>

\* get_or_create_conversation, the membership test.
GetOrCreateTest(r) ==
    /\ pc[r] = "pending"
    /\ CanRun(r)
    /\ running' = r
    /\ pc' = [pc EXCEPT ![r] =
                 IF Unseen(input[r].conversation_id) THEN "create" ELSE "fetch"]
    /\ UNCHANGED <<client, conversations, heap, input, conversation,
                   entry, fresh, appended, sent, result>>

\* get_or_create_conversation, the construction and the store.
GetOrCreateInsert(r) ==
    /\ pc[r] = "create"
    /\ CanRun(r)
    /\ heap' = Append(heap, NewConversation)
    /\ conversations' = StoreInsert(conversations, input[r].conversation_id, Len(heap) + 1)
    /\ appended' = Append(appended, <<>>)
    /\ pc' = [pc EXCEPT ![r] = "fetch"]
    /\ UNCHANGED <<client, running, input, conversation, entry, fresh, sent, result>>

\* get_or_create_conversation, `return conversations[conversation_id]`.
GetOrCreateReturn(r) ==
    /\ pc[r] = "fetch"
    /\ CanRun(r)
    /\ conversation' = [conversation EXCEPT ![r] = conversations[input[r].conversation_id]]
    /\ entry' = [entry EXCEPT ![r] = heap[conversations[input[r].conversation_id]]]
    /\ pc' = [pc EXCEPT ![r] = "check_active"]
    /\ UNCHANGED <<client, conversations, heap, running, input, fresh, appended,
                   sent, result>>

\* chat: the active test, raising 400 outside the try block.
CheckActive(r) ==
    /\ pc[r] = "check_active"
    /\ CanRun(r)
    /\ IF Ended(conversation[r])
       THEN /\ result' = [result EXCEPT ![r] =
                   HTTPException(400, <<"The chat session has ended">>)]
            /\ pc' = [pc EXCEPT ![r] = "done"]
            /\ running' = 0
       ELSE /\ pc' = [pc EXCEPT ![r] = "append_user"]
            /\ UNCHANGED <<result, running>>
    /\ UNCHANGED <<client, conversations, heap, input, conversation, entry, fresh,
                   appended, sent>>

\* chat: append the caller's message.
AppendUser(r) ==
    /\ pc[r] = "append_user"
    /\ CanRun(r)
    /\ heap' = AppendMessage(heap, conversation[r], CallerMessage(r))
    /\ appended' = [appended EXCEPT ![conversation[r]] = Append(@, CallerMessage(r))]
    /\ pc' = [pc EXCEPT ![r] = "query"]
    /\ UNCHANGED <<client, conversations, running, input, conversation,
                   entry, fresh, sent, result>>

\* query_groq_api: refuse without a client (the 503 is caught by chat's
\* except clause), otherwise call the provider with conversation.messages.
QueryGroqApi(r) ==
    /\ pc[r] = "query"
    /\ CanRun(r)
    /\ IF ClientMissing
       THEN /\ result' = [result EXCEPT ![r] = ChatExcept(
                   HTTPException(503, <<"Groq API client not initialized">>))]
            /\ pc' = [pc EXCEPT ![r] = "done"]
            /\ running' = 0
            /\ UNCHANGED sent
       ELSE /\ sent' = [sent EXCEPT ![r] = Append(@, ProviderMessages(conversation[r]))]
            /\ pc' = [pc EXCEPT ![r] = "in_provider"]
            /\ UNCHANGED <<result, running>>
    /\ UNCHANGED <<client, conversations, heap, input, conversation, entry, fresh,
                   appended>>

\* The provider call fails inside query_groq_api (it raised, or its content
\* is falsy): the exception passes through both except clauses.
ProviderFails(r) ==
    /\ pc[r] = "in_provider"
    /\ CanRun(r)
    /\ \E o \in ProviderOutcomes :
          /\ ~QueryOutcome(o).ok
          /\ result' = [result EXCEPT ![r] = ChatExcept(QueryOutcome(o).exc)]
    /\ pc' = [pc EXCEPT ![r] = AfterFailedCall]
    /\ running' = 0
    /\ UNCHANGED <<client, conversations, heap, input, conversation, entry, fresh,
                   appended, sent>>

\* The provider call returns text: chat appends the assistant message and
\* returns the reply with the request's conversation_id.
ProviderReplies(r) ==
    /\ pc[r] = "in_provider"
    /\ CanRun(r)
    /\ \E o \in ProviderOutcomes :
          /\ QueryOutcome(o).ok
          /\ heap' = AppendMessage(heap, conversation[r],
                                   Message("assistant", QueryOutcome(o).content))
          /\ appended' = [appended EXCEPT ![conversation[r]] =
                             Append(@, Message("assistant", QueryOutcome(o).content))]
          /\ result' = [result EXCEPT ![r] =
                           [status |-> 200, response |-> QueryOutcome(o).content,
                            conversation_id |-> input[r].conversation_id,
                            detail |-> <<>>]]
    /\ pc' = [pc EXCEPT ![r] = "done"]
    /\ running' = 0
    /\ UNCHANGED <<client, conversations, input, conversation, entry, fresh, sent>>

Next ==
    \E r \in Requests :
        \/ Arrive(r)
        \/ GetOrCreateTest(r)
        \/ GetOrCreateInsert(r)
        \/ GetOrCreateReturn(r)
        \/ CheckActive(r)
        \/ AppendUser(r)
        \/ QueryGroqApi(r)
        \/ ProviderFails(r)
        \/ ProviderReplies(r)

Spec == Init /\ [][Next]_vars

\* ------------------------------------------------- ended conversations
\* Conversation.markEnded of the specification: no function of the source
\* assigns `active`, so the flag is cleared here by the environment, between
\* two handlers, to exercise chat's test of it.
MarkEnded(o) ==
    /\ running = 0
    /\ heap[o].active
    /\ heap' = [heap EXCEPT ![o].active = FALSE]
    /\ UNCHANGED <<client, conversations, running, pc, input, conversation, entry,
                   fresh, appended, sent, result>>

NextEnded ==
    \/ Next
    \/ \E o \in DOMAIN heap : MarkEnded(o)

SpecEnded == Init /\ [][NextEnded]_vars


\* ------------------------------------------------------------- properties
Min(a, b) == IF a <= b THEN a ELSE b

LastK(s, k) == SubSeq(s, Len(s) - k + 1, Len(s))

Count(s, m) == Cardinality({i \in DOMAIN s : s[i] = m})

Range(s) == {s[i] : i \in DOMAIN s}

Last(s) == s[Len(s)]

\* The messages of the conversation stored under id.
History(id) == heap[conversations[id]].messages

\* The handler's completion call failed: it ended in an error other than
\* the rejection of an ended session.
CompletionFailed(res) == res.status \notin {0, 200, 400}

\* C1. Window invariant: every conversation's history holds at most
\* maxHistory + 1 messages after each append.
WindowInvariant ==
    \A o \in DOMAIN heap : Len(heap[o].messages) <= maxHistory + 1

\* C2. FIFO eviction: a conversation's history is the system message followed
\* by exactly the last min(n, maxHistory) of the n messages appended, in order.
FifoEviction ==
    \A o \in DOMAIN heap :
        heap[o].messages =
            <<SystemPrompt>> \o LastK(appended[o], Min(Len(appended[o]), maxHistory))

\* C3. System prompt pinned: every stored conversation is non-empty and its
\* first message is the fixed system prompt, with role system.
SystemPromptPinned ==
    \A id \in DOMAIN conversations :
        /\ Len(History(id)) >= 1
        /\ History(id)[1].role = "system"
        /\ History(id)[1] = SystemPrompt

\* A caller's message of role system was appended, and a reply after it.
SystemPromptPinnedWitness ==
    \E id \in DOMAIN conversations :
        \E i \in 2..Len(History(id)) :
            /\ History(id)[i].role = "system"
            /\ i < Len(History(id))
            /\ History(id)[1] = SystemPrompt

\* C4. No partial turn on failure: when a handler ends because its completion
\* call failed, the history is the one the handler found plus exactly the
\* caller's message; no assistant message was added.
NoPartialTurnOnFailure ==
    [][\A r \in Requests :
          (pc[r] # "done" /\ pc'[r] = "done" /\ CompletionFailed(result'[r]))
              => heap'[conversation[r]].messages =
                     Append(entry[r].messages, CallerMessage(r))]_vars

\* A turn on a conversation that already had earlier turns failed in the
\* provider and left the caller's message as the last one.
NoPartialTurnOnFailureWitness ==
    \E r \in Requests :
        /\ pc[r] = "done"
        /\ CompletionFailed(result[r])
        /\ sent[r] # <<>>
        /\ Len(entry[r].messages) >= 2
        /\ heap[conversation[r]].messages = Append(entry[r].messages, CallerMessage(r))

\* The conversation stored under id has ended.
EndedId(id) == id \in DOMAIN conversations /\ ~heap[conversations[id]].active

\* C5. Terminal rejection: every step of a handler on an ended conversation
\* leaves all histories alone and calls no provider, and the handler ends
\* with status 400, the session-ended error.
TerminalRejection ==
    [][\A r \in Requests :
          (pc[r] \notin {"idle", "done"} /\ pc'[r] # pc[r]
              /\ EndedId(input[r].conversation_id))
              => /\ heap' = heap
                 /\ sent' = sent
                 /\ pc'[r] \in {"fetch", "check_active", "done"}
                 /\ pc'[r] = "done" =>
                        /\ result'[r].status = 400
                        /\ result'[r].detail = <<"The chat session has ended">>]_vars

\* A turn on an ended conversation with earlier turns was rejected with 400.
TerminalRejectionWitness ==
    \E r \in Requests :
        /\ pc[r] = "done"
        /\ result[r].status = 400
        /\ sent[r] = <<>>
        /\ Len(entry[r].messages) >= 2
        /\ heap[conversation[r]].messages = entry[r].messages

\* C6. Idempotent lookup: any two lookups of one conversation_id return the
\* same Conversation instance, which is the one the store still holds.
IdempotentLookup ==
    \A r1, r2 \in Requests :
        (/\ input[r1].conversation_id = input[r2].conversation_id
         /\ conversation[r1] # 0
         /\ conversation[r2] # 0)
            => /\ conversation[r1] = conversation[r2]
               /\ conversations[input[r1].conversation_id] = conversation[r1]

\* A second lookup, made after a first request's successful turn, returned
\* the instance that holds that turn's two messages.
IdempotentLookupWitness ==
    \E r1, r2 \in Requests :
        /\ r1 # r2
        /\ input[r1].conversation_id = input[r2].conversation_id
        /\ result[r1].status = 200
        /\ ~fresh[r2]
        /\ pc[r2] = "check_active"
        /\ conversation[r2] = conversation[r1]
        /\ entry[r2].messages =
               <<SystemPrompt, CallerMessage(r1), Message("assistant", result[r1].response)>>

\* C7. Atomic creation: exactly one Conversation was constructed for each
\* stored conversation_id, and every handler holds the stored instance.
AtomicCreation ==
    /\ Len(heap) = Cardinality(DOMAIN conversations)
    /\ \A r \in Requests :
           conversation[r] # 0 =>
               conversation[r] = conversations[input[r].conversation_id]

\* Two requests arrived for one conversation_id while it was unseen, and both
\* handlers have obtained their Conversation.
AtomicCreationWitness ==
    \E r1, r2 \in Requests :
        /\ r1 # r2
        /\ input[r1].conversation_id = input[r2].conversation_id
        /\ fresh[r1] /\ fresh[r2]
        /\ conversation[r1] # 0
        /\ conversation[r1] = conversation[r2]

\* The requests on id whose handler has appended the caller's message.
Callers(id) ==
    {r \in Requests : /\ input[r].conversation_id = id
                      /\ pc[r] \in {"query", "in_provider", "done"}
                      /\ result[r].status # 400}

\* The requests on id whose completion succeeded.
Succeeded(id) ==
    {r \in Requests : input[r].conversation_id = id /\ result[r].status = 200}

ReplyMessage(r) == Message("assistant", result[r].response)

\* C8. Concurrency safety: after the system message, a conversation's history
\* holds exactly one message per handler that appended its caller's message
\* and one reply per handler whose completion succeeded, nothing else,
\* nothing lost and nothing twice.
ConcurrencySafety ==
    \A id \in DOMAIN conversations :
        /\ Len(History(id)) = 1 + Cardinality(Callers(id)) + Cardinality(Succeeded(id))
        /\ Cardinality(Succeeded(id)) <= Cardinality(Callers(id))
        /\ \A m \in Range(Tail(History(id)))
                     \cup {CallerMessage(r) : r \in Callers(id)}
                     \cup {ReplyMessage(r) : r \in Succeeded(id)} :
              Count(Tail(History(id)), m) =
                  Cardinality({r \in Callers(id) : CallerMessage(r) = m})
                      + Cardinality({r \in Succeeded(id) : ReplyMessage(r) = m})

\* Two requests with distinct contents, in flight together on one unseen
\* conversation_id, have both ended: one with a reply, one in an error.
ConcurrencySafetyWitness ==
    \E r1, r2 \in Requests :
        /\ r1 # r2
        /\ input[r1].conversation_id = input[r2].conversation_id
        /\ input[r1].message # input[r2].message
        /\ fresh[r1] /\ fresh[r2]
        /\ pc[r1] = "done" /\ pc[r2] = "done"
        /\ result[r1].status = 200
        /\ CompletionFailed(result[r2])
        /\ Len(History(input[r1].conversation_id)) = 4

\* C9. Successful turn: a handler that ends with a reply called the provider
\* once, with the history it found plus the caller's message; the history is
\* then that list plus one assistant message carrying the reply, and the
\* response carries the same reply and the request's conversation_id.
SuccessfulTurn ==
    [][\A r \in Requests :
          (pc[r] # "done" /\ pc'[r] = "done" /\ result'[r].status = 200)
              => /\ sent[r] = <<Append(entry[r].messages, CallerMessage(r))>>
                 /\ sent[r][1][1] = SystemPrompt
                 /\ heap'[conversation[r]].messages =
                        entry[r].messages \o
                            <<CallerMessage(r),
                              Message("assistant", result'[r].response)>>
                 /\ result'[r].conversation_id = input[r].conversation_id]_vars

\* A turn on a conversation with earlier turns got the reply "R".
SuccessfulTurnWitness ==
    \E r \in Requests :
        /\ pc[r] = "done"
        /\ result[r].status = 200
        /\ result[r].response = "R"
        /\ Len(entry[r].messages) >= 2
        /\ Len(sent[r][1]) = Len(entry[r].messages) + 1
        /\ Len(heap[conversation[r]].messages) = Len(entry[r].messages) + 2

\* C10. NotConfigured maps to 503: a turn that ends because no client is
\* configured ends with status 503.
NotConfiguredIs503 ==
    \A r \in Requests :
        (/\ pc[r] = "done"
         /\ result[r].detail # <<>>
         /\ Last(result[r].detail) = "Groq API client not initialized")
            => result[r].status = 503

\* C11. Cross-session progress: while one request's completion call is in
\* flight, a pending request for another conversation_id can make its lookup.
CrossSessionProgress ==
    \A r1, r2 \in Requests :
        (/\ pc[r1] = "in_provider"
         /\ pc[r2] = "pending"
         /\ input[r1].conversation_id # input[r2].conversation_id)
            => ENABLED GetOrCreateTest(r2)

\* C12. Per-session turn serialization: the history handed to the provider
\* by a turn that got a reply is, with that reply right after the caller's
\* message, a prefix of the conversation's history; and while a turn's call
\* is in flight no other turn on the same conversation has appended its
\* caller's message without having ended.
TurnSerialization ==
    /\ \A r \in Requests :
           result[r].status = 200 =>
               /\ Last(sent[r][1]) = CallerMessage(r)
               /\ Len(heap[conversation[r]].messages) > Len(sent[r][1])
               /\ SubSeq(heap[conversation[r]].messages, 1, Len(sent[r][1]) + 1) =
                      Append(sent[r][1], ReplyMessage(r))
    /\ \A r1, r2 \in Requests :
           (/\ r1 # r2
            /\ pc[r1] = "in_provider"
            /\ input[r1].conversation_id = input[r2].conversation_id)
               => pc[r2] \notin {"query", "in_provider"}

\* Two requests in flight together on one unseen conversation_id both got a
\* reply: the history is system, caller, reply, caller, reply.
TurnSerializationWitness ==
    \E r1, r2 \in Requests :
        /\ r1 # r2
        /\ input[r1].conversation_id = input[r2].conversation_id
        /\ fresh[r1] /\ fresh[r2]
        /\ result[r1].status = 200 /\ result[r2].status = 200
        /\ History(input[r1].conversation_id) =
               <<SystemPrompt, CallerMessage(r1), ReplyMessage(r1),
                 CallerMessage(r2), ReplyMessage(r2)>>

\* C13 as stated. No partial success: when a handler ends because its
\* completion call failed, the conversation's messages are those the handler
\* found.
NoPartialSuccess ==
    [][\A r \in Requests :
          (pc[r] # "done" /\ pc'[r] = "done" /\ CompletionFailed(result'[r]))
              => heap'[conversation[r]].messages = entry[r].messages]_vars

\* C13 as amended. The failure itself appends nothing: the step in which a
\* handler ends in a completion failure changes no history, the caller's
\* message, appended before the call, stays as the last message, and no
\* reply of that turn is recorded.
FailureAppendsNoReply ==
    [][\A r \in Requests :
          (pc[r] # "done" /\ pc'[r] = "done" /\ CompletionFailed(result'[r]))
              => /\ heap' = heap
                 /\ Last(heap'[conversation[r]].messages) = CallerMessage(r)
                 /\ Len(heap'[conversation[r]].messages) > Len(entry[r].messages)
                 /\ result'[r].response = ""]_vars

\* A turn whose provider call raised ended with the caller's message stored
\* after the history it found.
FailureAppendsNoReplyWitness ==
    \E r \in Requests :
        /\ pc[r] = "done"
        /\ CompletionFailed(result[r])
        /\ Last(result[r].detail) = "provider error"
        /\ Last(heap[conversation[r]].messages) = CallerMessage(r)
        /\ Len(heap[conversation[r]].messages) = Len(entry[r].messages) + 1

\* str.strip() leaves nothing of the text.
Blank(t) == t \in {"", " "}

\* C14. Empty response is a failure: no handler ends with a reply that is
\* empty or whitespace-only, and no such reply is stored as an assistant
\* message.
EmptyResponseIsFailure ==
    \A r \in Requests :
        result[r].status = 200 =>
            /\ ~Blank(result[r].response)
            /\ ~Blank(heap[conversation[r]].messages[Len(sent[r][1]) + 1].content)

\* C15. Empty content rejected: no conversation holds a user or assistant
\* message with empty content.
EmptyContentRejected ==
    \A o \in DOMAIN heap :
        \A i \in DOMAIN heap[o].messages :
            heap[o].messages[i].role \in {"user", "assistant"}
                => heap[o].messages[i].content # ""

\* C16. Closed role set: every message of every conversation has a role in
\* {system, user, assistant}.
ClosedRoleSet ==
    \A o \in DOMAIN heap :
        \A i \in DOMAIN heap[o].messages :
            heap[o].messages[i].role \in {"system", "user", "assistant"}

\* C17. Session isolation and non-mutating lookup: a step of a request changes
\* no Conversation other than the one stored under its conversation_id, its
\* lookup steps change none that exists, and distinct conversation_ids are
\* never stored with the same Conversation.
SessionIsolation ==
    [][/\ \A r \in Requests :
             pc'[r] # pc[r] =>
                 \A o \in DOMAIN heap :
                     heap'[o] # heap[o] =>
                         /\ pc[r] \notin {"idle", "pending", "create", "fetch"}
                         /\ o = conversations[input[r].conversation_id]
       /\ \A id1, id2 \in DOMAIN conversations' :
             id1 # id2 => conversations'[id1] # conversations'[id2]]_vars

\* Both conversation_ids are stored; a turn on one got a reply while the
\* other conversation still holds its system message alone.
SessionIsolationWitness ==
    \E r \in Requests :
        /\ DOMAIN conversations = ConvIds
        /\ result[r].status = 200
        /\ Len(History(input[r].conversation_id)) >= 3
        /\ \E id \in ConvIds :
              /\ id # input[r].conversation_id
              /\ History(id) = <<SystemPrompt>>

\* C18. No retries: a handler calls the provider at most once, and a handler
\* that ended in an error made no second call.
NoRetries ==
    \A r \in Requests :
        /\ Len(sent[r]) <= 1
        /\ (pc[r] = "in_provider" \/ result[r].status = 200) => Len(sent[r]) = 1
        /\ (Len(sent[r]) = 1 /\ CompletionFailed(result[r])) => pc[r] = "done"

\* A handler's single provider call failed and the handler has ended.
NoRetriesWitness ==
    \E r \in Requests :
        /\ pc[r] = "done"
        /\ CompletionFailed(result[r])
        /\ Len(sent[r]) = 1

\* C19. Refusal before I/O: without a client no handler ever calls the
\* provider, and a handler that reached the call ended with the
\* client-not-initialized error.
RefusalBeforeIO ==
    ~client =>
        \A r \in Requests :
            /\ sent[r] = <<>>
            /\ pc[r] # "in_provider"
            /\ pc[r] = "done" =>
                   Last(result[r].detail) = "Groq API client not initialized"

\* Without a client, a turn was refused after its caller's message was stored.
RefusalBeforeIOWitness ==
    /\ ~client
    /\ \E r \in Requests :
          /\ pc[r] = "done"
          /\ Last(result[r].detail) = "Groq API client not initialized"
          /\ sent[r] = <<>>
          /\ Last(heap[conversation[r]].messages) = CallerMessage(r)

\* C20. Every Conversation ever constructed is active, and no handler ended
\* with the session-ended rejection.
AlwaysActive ==
    /\ \A o \in DOMAIN heap : heap[o].active
    /\ \A r \in Requests : result[r].status # 400

\* Every request has ended, with turns on a conversation that is still active.
AlwaysActiveWitness ==
    /\ \A r \in Requests : pc[r] = "done" /\ result[r].status \in {200, 500}
    /\ \E id \in DOMAIN conversations :
          /\ heap[conversations[id]].active
          /\ Len(History(id)) >= 4

=============================================================================
